---- MODULE Spec2Model ----
(***************************************************************************)
(* Model of the three X-Plane MFD calculators (turn_calculator,            *)
(* vnav_calculator, wind_calculator): their main() as step machines over   *)
(* argv, stdout, stderr and the exit code, and their calculate_* functions *)
(* as operators over a model of double.                                    *)
(*                                                                         *)
(* double is modelled as decimal floating point with 8 significant digits: *)
(* a number is [m |-> mantissa, e |-> exponent] and denotes m * 10^e, kept *)
(* canonical (m = 0 and e = 0, or m not divisible by 10 and |m| < 10^8).   *)
(* Every operation rounds its exact result to 8 digits, as IEEE arithmetic *)
(* rounds to 53 bits, so x * DEG_TO_RAD, sin(pi) and a / b * b carry the   *)
(* same kind of residue the program's doubles carry (only larger).         *)
(***************************************************************************)
EXTENDS Integers, Sequences, FiniteSets, TLC

VARIABLES prog, args, pc, vals, stdout, stderr, exit_code,
          w_in, w_out, t_in, t_out, v_in, v_out

vars == <<prog, args, pc, vals, stdout, stderr, exit_code,
          w_in, w_out, t_in, t_out, v_in, v_out>>

(***************************************************************************)
(* double                                                                  *)
(***************************************************************************)
Pow10(k) ==
    CASE k = 0 -> 1
      [] k = 1 -> 10
      [] k = 2 -> 100
      [] k = 3 -> 1000
      [] k = 4 -> 10000
      [] k = 5 -> 100000
      [] k = 6 -> 1000000
      [] k = 7 -> 10000000
      [] k = 8 -> 100000000
      [] k = 9 -> 1000000000

IAbs(n) == IF n < 0 THEN -n ELSE n

Sgn(n) == IF n < 0 THEN -1 ELSE IF n = 0 THEN 0 ELSE 1

\* number of decimal digits of n >= 0 (1 for 0)
NumDigits(n) ==
    CASE n < 10 -> 1
      [] n >= 10 /\ n < 100 -> 2
      [] n >= 100 /\ n < 1000 -> 3
      [] n >= 1000 /\ n < 10000 -> 4
      [] n >= 10000 /\ n < 100000 -> 5
      [] n >= 100000 /\ n < 1000000 -> 6
      [] n >= 1000000 /\ n < 10000000 -> 7
      [] n >= 10000000 /\ n < 100000000 -> 8
      [] n >= 100000000 /\ n < 1000000000 -> 9
      [] n >= 1000000000 -> 10

RECURSIVE StripZeros(_, _)
StripZeros(a, e) ==
    IF a % 10 = 0 THEN StripZeros(a \div 10, e + 1) ELSE [m |-> a, e |-> e]

\* a / 10^k rounded to nearest (half away from zero), a >= 0, 0 <= k <= 9
RoundShift(a, k) ==
    IF k = 0 THEN a ELSE (a + Pow10(k) \div 2) \div Pow10(k)

\* the double nearest to m * 10^e
Norm(m, e) ==
    IF m = 0 THEN [m |-> 0, e |-> 0]
    ELSE LET a == IAbs(m)
             d == NumDigits(a)
             k == IF d > 8 THEN d - 8 ELSE 0
             r == StripZeros(RoundShift(a, k), e + k)
         IN  [m |-> Sgn(m) * r.m, e |-> r.e]

F(m, e) == Norm(m, e)

Zero == [m |-> 0, e |-> 0]

\* position of the leading digit: |x| is in [10^(Order-1), 10^Order)
Order(x) == NumDigits(IAbs(x.m)) + x.e

\* |x.m| shifted left to exactly 8 digits
LJust(x) == IAbs(x.m) * Pow10(8 - NumDigits(IAbs(x.m)))

FNeg(x) == [m |-> -x.m, e |-> x.e]

FAbs(x) == [m |-> IAbs(x.m), e |-> x.e]

\* -1, 0, 1 as |a| is below, equal to, above |b| (a, b nonzero)
CmpMag(a, b) ==
    IF Order(a) # Order(b) THEN (IF Order(a) < Order(b) THEN -1 ELSE 1)
    ELSE Sgn(LJust(a) - LJust(b))

FCmp(a, b) ==
    IF Sgn(a.m) # Sgn(b.m) THEN (IF Sgn(a.m) < Sgn(b.m) THEN -1 ELSE 1)
    ELSE IF a.m = 0 THEN 0
    ELSE Sgn(a.m) * CmpMag(a, b)

FLt(a, b) == FCmp(a, b) < 0
FLe(a, b) == FCmp(a, b) <= 0
FGt(a, b) == FCmp(a, b) > 0
FGe(a, b) == FCmp(a, b) >= 0

FAdd(a, b) ==
    IF a.m = 0 THEN b
    ELSE IF b.m = 0 THEN a
    ELSE LET hi == IF CmpMag(a, b) >= 0 THEN a ELSE b
             lo == IF CmpMag(a, b) >= 0 THEN b ELSE a
             d  == Order(hi) - Order(lo)
             H  == Sgn(hi.m) * LJust(hi) * 10
             L  == IF d > 9 THEN 0
                   ELSE Sgn(lo.m) * RoundShift(LJust(lo) * 10, d)
         IN  Norm(H + L, Order(hi) - 9)

FSub(a, b) == FAdd(a, FNeg(b))

FMul(a, b) ==
    IF a.m = 0 \/ b.m = 0 THEN Zero
    ELSE IF NumDigits(IAbs(a.m)) + NumDigits(IAbs(b.m)) <= 9
         THEN Norm(a.m * b.m, a.e + b.e)
    ELSE LET A  == LJust(a)
             B  == LJust(b)
             a1 == A \div 10000
             a0 == A % 10000
             b1 == B \div 10000
             b0 == B % 10000
             H  == a1 * b1
             M  == a1 * b0 + a0 * b1
             L  == a0 * b0
             P  == H * 10 + (M + L \div 10000) \div 1000
         IN  Norm(Sgn(a.m) * Sgn(b.m) * P, (Order(a) - 8) + (Order(b) - 8) + 7)

\* n more quotient digits of r / B appended to acc
RECURSIVE LongDiv(_, _, _, _)
LongDiv(r, B, n, acc) ==
    IF n = 0 THEN acc
    ELSE LongDiv((r * 10) % B, B, n - 1, acc * 10 + (r * 10) \div B)

FDiv(a, b) ==
    IF a.m = 0 THEN Zero
    ELSE LET A == LJust(a)
             B == LJust(b)
             n == IF A < B THEN 9 ELSE 8
             Q == LongDiv(A % B, B, n, A \div B)
         IN  Norm(Sgn(a.m) * Sgn(b.m) * Q, (Order(a) - 8) - (Order(b) - 8) - n)

\* operator<< under std::fixed << std::setprecision(2): x to two decimals
Fixed2(x) ==
    IF x.e >= -2 THEN x
    ELSE IF -2 - x.e > 8 THEN Zero
    ELSE Norm(Sgn(x.m) * RoundShift(IAbs(x.m), -2 - x.e), -2)

(***************************************************************************)
(* <cmath>, <numbers>                                                      *)
(***************************************************************************)
PI == F(31415927, -7)

DEG_TO_RAD == FDiv(PI, F(180, 0))

RAD_TO_DEG == FDiv(F(180, 0), PI)

GRAVITY == F(980665, -5)

KTS_TO_MS == F(514444, -6)

NM_TO_FT == F(607612, -2)

STANDARD_RATE == F(3, 0)

THREE_DEG_RAD == FMul(F(3, 0), DEG_TO_RAD)

FIVE_DEG_RAD == FMul(F(5, 0), DEG_TO_RAD)

(***************************************************************************)
(* argv: an argument is the sequence of its characters.  std::stod skips   *)
(* leading blanks, reads an optional sign, digits, an optional point and   *)
(* more digits, and stops at the first character that fits no more; it     *)
(* throws std::invalid_argument when it read no digit.  The arguments      *)
(* below use neither exponents, hexadecimal, "inf" nor "nan".              *)
(***************************************************************************)
IsDigit(c) == c \in {"0", "1", "2", "3", "4", "5", "6", "7", "8", "9"}

DigitVal(c) ==
    CASE c = "0" -> 0 [] c = "1" -> 1 [] c = "2" -> 2 [] c = "3" -> 3
      [] c = "4" -> 4 [] c = "5" -> 5 [] c = "6" -> 6 [] c = "7" -> 7
      [] c = "8" -> 8 [] c = "9" -> 9

RECURSIVE SkipSpace(_)
SkipSpace(s) == IF s # <<>> /\ Head(s) = " " THEN SkipSpace(Tail(s)) ELSE s

\* the digits at the front of s appended to mantissa m; n counts them
RECURSIVE ScanDigits(_, _, _)
ScanDigits(s, m, n) ==
    IF s # <<>> /\ IsDigit(Head(s))
    THEN ScanDigits(Tail(s), m * 10 + DigitVal(Head(s)), n + 1)
    ELSE [rest |-> s, m |-> m, n |-> n]

\* [ok |-> FALSE]: std::invalid_argument thrown
stod(str) ==
    LET s1  == SkipSpace(str)
        neg == s1 # <<>> /\ Head(s1) = "-"
        s2  == IF s1 # <<>> /\ Head(s1) \in {"+", "-"} THEN Tail(s1) ELSE s1
        ip  == ScanDigits(s2, 0, 0)
        fp  == IF ip.rest # <<>> /\ Head(ip.rest) = "."
               THEN ScanDigits(Tail(ip.rest), ip.m, 0)
               ELSE [rest |-> ip.rest, m |-> ip.m, n |-> 0]
    IN  IF ip.n + fp.n = 0
        THEN [ok |-> FALSE, val |-> Zero]
        ELSE [ok |-> TRUE, val |-> Norm(IF neg THEN -fp.m ELSE fp.m, -fp.n)]

parse_double(sv) == stod(sv)

\* std::cos, std::sin, std::tan, std::atan: the library's value (rounded to a
\* double) at each argument the bounded inputs below reach.  An argument
\* outside the table yields Untabulated, which no run of the specifications
\* below produces (TablesCover).
Untabulated == [m |-> 1, e |-> 999]

\* TABLES-BEGIN
std_cos(x) ==
    CASE x.m = -87266465 /\ x.e = -11 -> [m |-> 99999962, e |-> -8]
      [] x.m = -78539818 /\ x.e = -8 -> [m |-> 70710677, e |-> -8]
      [] x.m = -43633232 /\ x.e = -8 -> [m |-> 90630778, e |-> -8]
      [] x.m = -26179939 /\ x.e = -8 -> [m |-> 96592583, e |-> -8]
      [] x.m = -23561945 /\ x.e = -7 -> [m |-> -70710679, e |-> -8]
      [] x.m = -17668841 /\ x.e = -8 -> [m |-> 98443117, e |-> -8]
      [] x.m = -17668753 /\ x.e = -8 -> [m |-> 98443132, e |-> -8]
      [] x.m = -17668666 /\ x.e = -8 -> [m |-> 98443148, e |-> -8]
      [] x.m = -17474847 /\ x.e = -7 -> [m |-> -17577047, e |-> -8]
      [] x.m = -17474839 /\ x.e = -7 -> [m |-> -17576969, e |-> -8]
      [] x.m = -15707964 /\ x.e = -7 -> [m |-> -73205103, e |-> -15]
      [] x.m = -14835299 /\ x.e = -7 -> [m |-> 87155707, e |-> -9]
      [] x.m = -10471976 /\ x.e = -10 -> [m |-> 99999945, e |-> -8]
      [] x.m = -10471976 /\ x.e = -7 -> [m |-> 49999996, e |-> -8]
      [] x.m = -1747483 /\ x.e = -6 -> [m |-> -1757688, e |-> -7]
      [] x.m = 0 /\ x.e = 0 -> [m |-> 1, e |-> 0]
      [] x.m = 1394108 /\ x.e = -6 -> [m |-> 17577043, e |-> -8]
      [] x.m = 2964906 /\ x.e = -6 -> [m |-> -98443148, e |-> -8]
      [] x.m = 10471976 /\ x.e = -10 -> [m |-> 99999945, e |-> -8]
      [] x.m = 13941088 /\ x.e = -7 -> [m |-> 17576964, e |-> -8]
      [] x.m = 13941097 /\ x.e = -7 -> [m |-> 17576876, e |-> -8]
      [] x.m = 14835299 /\ x.e = -7 -> [m |-> 87155707, e |-> -9]
      [] x.m = 15707964 /\ x.e = -7 -> [m |-> -73205103, e |-> -15]
      [] x.m = 19177067 /\ x.e = -7 -> [m |-> -33999386, e |-> -8]
      [] x.m = 19177076 /\ x.e = -7 -> [m |-> -33999471, e |-> -8]
      [] x.m = 19177084 /\ x.e = -7 -> [m |-> -33999546, e |-> -8]
      [] x.m = 23561945 /\ x.e = -7 -> [m |-> -70710679, e |-> -8]
      [] x.m = 29649043 /\ x.e = -7 -> [m |-> -98443118, e |-> -8]
      [] x.m = 29649052 /\ x.e = -7 -> [m |-> -98443134, e |-> -8]
      [] x.m = 31415927 /\ x.e = -7 -> [m |-> -1, e |-> 0]
      [] x.m = 43633232 /\ x.e = -8 -> [m |-> 90630778, e |-> -8]
      [] x.m = 52359879 /\ x.e = -8 -> [m |-> 8660254, e |-> -7]
      [] x.m = 78539818 /\ x.e = -8 -> [m |-> 70710677, e |-> -8]
      [] x.m = 87266465 /\ x.e = -11 -> [m |-> 99999962, e |-> -8]
      [] OTHER -> Untabulated

std_sin(x) ==
    CASE x.m = -78539818 /\ x.e = -8 -> [m |-> -70710679, e |-> -8]
      [] x.m = -26179939 /\ x.e = -8 -> [m |-> -25881905, e |-> -8]
      [] x.m = -23561945 /\ x.e = -7 -> [m |-> -70710677, e |-> -8]
      [] x.m = -17668841 /\ x.e = -8 -> [m |-> -17577051, e |-> -8]
      [] x.m = -17668753 /\ x.e = -8 -> [m |-> -17576964, e |-> -8]
      [] x.m = -17668666 /\ x.e = -8 -> [m |-> -17576879, e |-> -8]
      [] x.m = -17474847 /\ x.e = -7 -> [m |-> -98443118, e |-> -8]
      [] x.m = -17474839 /\ x.e = -7 -> [m |-> -98443132, e |-> -8]
      [] x.m = -15707964 /\ x.e = -7 -> [m |-> -1, e |-> 0]
      [] x.m = -10471976 /\ x.e = -7 -> [m |-> -86602543, e |-> -8]
      [] x.m = -1747483 /\ x.e = -6 -> [m |-> -98443147, e |-> -8]
      [] x.m = 0 /\ x.e = 0 -> [m |-> 0, e |-> 0]
      [] x.m = 1394108 /\ x.e = -6 -> [m |-> 98443118, e |-> -8]
      [] x.m = 2964906 /\ x.e = -6 -> [m |-> 17576878, e |-> -8]
      [] x.m = 13941088 /\ x.e = -7 -> [m |-> 98443132, e |-> -8]
      [] x.m = 13941097 /\ x.e = -7 -> [m |-> 98443148, e |-> -8]
      [] x.m = 15707964 /\ x.e = -7 -> [m |-> 1, e |-> 0]
      [] x.m = 19177067 /\ x.e = -7 -> [m |-> 94042765, e |-> -8]
      [] x.m = 19177076 /\ x.e = -7 -> [m |-> 94042735, e |-> -8]
      [] x.m = 19177084 /\ x.e = -7 -> [m |-> 94042708, e |-> -8]
      [] x.m = 23561945 /\ x.e = -7 -> [m |-> 70710677, e |-> -8]
      [] x.m = 29649043 /\ x.e = -7 -> [m |-> 17577046, e |-> -8]
      [] x.m = 29649052 /\ x.e = -7 -> [m |-> 17576957, e |-> -8]
      [] x.m = 31415927 /\ x.e = -7 -> [m |-> -46410207, e |-> -15]
      [] x.m = 52359879 /\ x.e = -8 -> [m |-> 50000001, e |-> -8]
      [] x.m = 78539818 /\ x.e = -8 -> [m |-> 70710679, e |-> -8]
      [] OTHER -> Untabulated

std_tan(x) ==
    CASE x.m = -87266465 /\ x.e = -11 -> [m |-> -87266487, e |-> -11]
      [] x.m = -85593494 /\ x.e = -8 -> [m |-> -1152051, e |-> -6]
      [] x.m = -82452065 /\ x.e = -10 -> [m |-> -82453934, e |-> -10]
      [] x.m = -82369782 /\ x.e = -10 -> [m |-> -82371645, e |-> -10]
      [] x.m = -82289356 /\ x.e = -13 -> [m |-> -82289356, e |-> -13]
      [] x.m = -82287499 /\ x.e = -10 -> [m |-> -82289356, e |-> -10]
      [] x.m = -82205214 /\ x.e = -10 -> [m |-> -82207066, e |-> -10]
      [] x.m = -82122931 /\ x.e = -10 -> [m |-> -82124777, e |-> -10]
      [] x.m = -82104365 /\ x.e = -9 -> [m |-> -82289356, e |-> -9]
      [] x.m = -78539818 /\ x.e = -8 -> [m |-> -1, e |-> 0]
      [] x.m = -77901156 /\ x.e = -8 -> [m |-> -98730768, e |-> -8]
      [] x.m = -77892822 /\ x.e = -8 -> [m |-> -98714312, e |-> -8]
      [] x.m = -68854538 /\ x.e = -8 -> [m |-> -82289356, e |-> -8]
      [] x.m = -57538966 /\ x.e = -9 -> [m |-> -57602549, e |-> -9]
      [] x.m = -49333551 /\ x.e = -9 -> [m |-> -49373613, e |-> -9]
      [] x.m = -49325342 /\ x.e = -9 -> [m |-> -49365384, e |-> -9]
      [] x.m = -49317134 /\ x.e = -9 -> [m |-> -49357156, e |-> -9]
      [] x.m = -43633232 /\ x.e = -8 -> [m |-> -46630767, e |-> -8]
      [] x.m = -41121484 /\ x.e = -9 -> [m |-> -41144678, e |-> -9]
      [] x.m = -39269909 /\ x.e = -8 -> [m |-> -41421357, e |-> -8]
      [] x.m = -32915741 /\ x.e = -11 -> [m |-> -32915742, e |-> -11]
      [] x.m = -31798754 /\ x.e = -8 -> [m |-> -32915742, e |-> -8]
      [] x.m = -16457871 /\ x.e = -12 -> [m |-> -16457871, e |-> -12]
      [] x.m = -16457871 /\ x.e = -11 -> [m |-> -16457871, e |-> -11]
      [] x.m = -16456385 /\ x.e = -9 -> [m |-> -16457871, e |-> -9]
      [] x.m = -16343693 /\ x.e = -8 -> [m |-> -16490787, e |-> -8]
      [] x.m = -16311647 /\ x.e = -8 -> [m |-> -16457871, e |-> -8]
      [] x.m = -16295622 /\ x.e = -8 -> [m |-> -16441413, e |-> -8]
      [] x.m = -16279597 /\ x.e = -8 -> [m |-> -16424955, e |-> -8]
      [] x.m = -15690603 /\ x.e = -7 -> [m |-> -5760274, e |-> -4]
      [] x.m = -15687706 /\ x.e = -7 -> [m |-> -49364931, e |-> -5]
      [] x.m = -15687703 /\ x.e = -7 -> [m |-> -49357621, e |-> -5]
      [] x.m = -15683659 /\ x.e = -7 -> [m |-> -41144956, e |-> -5]
      [] x.m = -15647203 /\ x.e = -7 -> [m |-> -16457921, e |-> -5]
      [] x.m = -15586689 /\ x.e = -7 -> [m |-> -82453681, e |-> -6]
      [] x.m = -15586568 /\ x.e = -7 -> [m |-> -82371487, e |-> -6]
      [] x.m = -15586447 /\ x.e = -7 -> [m |-> -82289458, e |-> -6]
      [] x.m = -15586325 /\ x.e = -7 -> [m |-> -82206915, e |-> -6]
      [] x.m = -15586203 /\ x.e = -7 -> [m |-> -82124538, e |-> -6]
      [] x.m = -14835299 /\ x.e = -7 -> [m |-> -11430057, e |-> -6]
      [] x.m = -14698717 /\ x.e = -7 -> [m |-> -987472, e |-> -5]
      [] x.m = -14498669 /\ x.e = -7 -> [m |-> -82289367, e |-> -7]
      [] x.m = -10471976 /\ x.e = -10 -> [m |-> -1047198, e |-> -9]
      [] x.m = -7853982 /\ x.e = -7 -> [m |-> -10000001, e |-> -7]
      [] x.m = -7790949 /\ x.e = -7 -> [m |-> -98747227, e |-> -8]
      [] x.m = -1632767 /\ x.e = -7 -> [m |-> -16474329, e |-> -8]
      [] x.m = -1568771 /\ x.e = -6 -> [m |-> -4937468, e |-> -4]
      [] x.m = 0 /\ x.e = 0 -> [m |-> 0, e |-> 0]
      [] x.m = 1568771 /\ x.e = -6 -> [m |-> 4937468, e |-> -4]
      [] x.m = 1632767 /\ x.e = -7 -> [m |-> 16474329, e |-> -8]
      [] x.m = 2617994 /\ x.e = -7 -> [m |-> 26794921, e |-> -8]
      [] x.m = 7790949 /\ x.e = -7 -> [m |-> 98747227, e |-> -8]
      [] x.m = 7853982 /\ x.e = -7 -> [m |-> 10000001, e |-> -7]
      [] x.m = 10247986 /\ x.e = -7 -> [m |-> 16457873, e |-> -7]
      [] x.m = 10471976 /\ x.e = -10 -> [m |-> 1047198, e |-> -9]
      [] x.m = 14835299 /\ x.e = -7 -> [m |-> 11430057, e |-> -6]
      [] x.m = 15586203 /\ x.e = -7 -> [m |-> 82124538, e |-> -6]
      [] x.m = 15586325 /\ x.e = -7 -> [m |-> 82206915, e |-> -6]
      [] x.m = 15586447 /\ x.e = -7 -> [m |-> 82289458, e |-> -6]
      [] x.m = 15586568 /\ x.e = -7 -> [m |-> 82371487, e |-> -6]
      [] x.m = 15586689 /\ x.e = -7 -> [m |-> 82453681, e |-> -6]
      [] x.m = 15647203 /\ x.e = -7 -> [m |-> 16457921, e |-> -5]
      [] x.m = 15683659 /\ x.e = -7 -> [m |-> 41144956, e |-> -5]
      [] x.m = 15687703 /\ x.e = -7 -> [m |-> 49357621, e |-> -5]
      [] x.m = 15687706 /\ x.e = -7 -> [m |-> 49364931, e |-> -5]
      [] x.m = 15690603 /\ x.e = -7 -> [m |-> 5760274, e |-> -4]
      [] x.m = 15707964 /\ x.e = -7 -> [m |-> -1366025, e |-> 1]
      [] x.m = 16279597 /\ x.e = -8 -> [m |-> 16424955, e |-> -8]
      [] x.m = 16295622 /\ x.e = -8 -> [m |-> 16441413, e |-> -8]
      [] x.m = 16311647 /\ x.e = -8 -> [m |-> 16457871, e |-> -8]
      [] x.m = 16333564 /\ x.e = -8 -> [m |-> 16480383, e |-> -8]
      [] x.m = 16343693 /\ x.e = -8 -> [m |-> 16490787, e |-> -8]
      [] x.m = 16456385 /\ x.e = -9 -> [m |-> 16457871, e |-> -9]
      [] x.m = 16457871 /\ x.e = -12 -> [m |-> 16457871, e |-> -12]
      [] x.m = 16457871 /\ x.e = -11 -> [m |-> 16457871, e |-> -11]
      [] x.m = 23561946 /\ x.e = -7 -> [m |-> -99999978, e |-> -8]
      [] x.m = 31798754 /\ x.e = -8 -> [m |-> 32915742, e |-> -8]
      [] x.m = 31839372 /\ x.e = -8 -> [m |-> 32960767, e |-> -8]
      [] x.m = 32915741 /\ x.e = -11 -> [m |-> 32915742, e |-> -11]
      [] x.m = 32948838 /\ x.e = -9 -> [m |-> 32960767, e |-> -9]
      [] x.m = 41121484 /\ x.e = -9 -> [m |-> 41144678, e |-> -9]
      [] x.m = 43633232 /\ x.e = -8 -> [m |-> 46630767, e |-> -8]
      [] x.m = 49317134 /\ x.e = -9 -> [m |-> 49357156, e |-> -9]
      [] x.m = 49325342 /\ x.e = -9 -> [m |-> 49365384, e |-> -9]
      [] x.m = 49333551 /\ x.e = -9 -> [m |-> 49373613, e |-> -9]
      [] x.m = 52359879 /\ x.e = -9 -> [m |-> 52407781, e |-> -9]
      [] x.m = 57538966 /\ x.e = -9 -> [m |-> 57602549, e |-> -9]
      [] x.m = 60173211 /\ x.e = -8 -> [m |-> 68668264, e |-> -8]
      [] x.m = 68854538 /\ x.e = -8 -> [m |-> 82289356, e |-> -8]
      [] x.m = 77892822 /\ x.e = -8 -> [m |-> 98714312, e |-> -8]
      [] x.m = 77901156 /\ x.e = -8 -> [m |-> 98730768, e |-> -8]
      [] x.m = 78539818 /\ x.e = -8 -> [m |-> 1, e |-> 0]
      [] x.m = 82104365 /\ x.e = -9 -> [m |-> 82289356, e |-> -9]
      [] x.m = 82122931 /\ x.e = -10 -> [m |-> 82124777, e |-> -10]
      [] x.m = 82205214 /\ x.e = -10 -> [m |-> 82207066, e |-> -10]
      [] x.m = 82287499 /\ x.e = -10 -> [m |-> 82289356, e |-> -10]
      [] x.m = 82289356 /\ x.e = -13 -> [m |-> 82289356, e |-> -13]
      [] x.m = 82369782 /\ x.e = -10 -> [m |-> 82371645, e |-> -10]
      [] x.m = 82452065 /\ x.e = -10 -> [m |-> 82453934, e |-> -10]
      [] x.m = 85593494 /\ x.e = -8 -> [m |-> 1152051, e |-> -6]
      [] x.m = 87266465 /\ x.e = -11 -> [m |-> 87266487, e |-> -11]
      [] x.m = 87266465 /\ x.e = -9 -> [m |-> 87488666, e |-> -9]
      [] x.m = 92189167 /\ x.e = -8 -> [m |-> 13184307, e |-> -7]
      [] OTHER -> Untabulated

std_atan(x) ==
    CASE x.m = -98747227 /\ x.e = -8 -> [m |-> -7790949, e |-> -7]
      [] x.m = -98747227 /\ x.e = -7 -> [m |-> -14698717, e |-> -7]
      [] x.m = -98730769 /\ x.e = -8 -> [m |-> -77901156, e |-> -8]
      [] x.m = -98714311 /\ x.e = -8 -> [m |-> -77892822, e |-> -8]
      [] x.m = -82453934 /\ x.e = -10 -> [m |-> -82452065, e |-> -10]
      [] x.m = -82453934 /\ x.e = -6 -> [m |-> -15586689, e |-> -7]
      [] x.m = -82371645 /\ x.e = -10 -> [m |-> -82369782, e |-> -10]
      [] x.m = -82371645 /\ x.e = -6 -> [m |-> -15586568, e |-> -7]
      [] x.m = -82289356 /\ x.e = -13 -> [m |-> -82289356, e |-> -13]
      [] x.m = -82289356 /\ x.e = -10 -> [m |-> -82287499, e |-> -10]
      [] x.m = -82289356 /\ x.e = -9 -> [m |-> -82104365, e |-> -9]
      [] x.m = -82289356 /\ x.e = -8 -> [m |-> -68854538, e |-> -8]
      [] x.m = -82289356 /\ x.e = -7 -> [m |-> -14498669, e |-> -7]
      [] x.m = -82289356 /\ x.e = -6 -> [m |-> -15586447, e |-> -7]
      [] x.m = -82207066 /\ x.e = -10 -> [m |-> -82205214, e |-> -10]
      [] x.m = -82207066 /\ x.e = -6 -> [m |-> -15586325, e |-> -7]
      [] x.m = -82124777 /\ x.e = -10 -> [m |-> -82122931, e |-> -10]
      [] x.m = -82124777 /\ x.e = -6 -> [m |-> -15586203, e |-> -7]
      [] x.m = -57602549 /\ x.e = -9 -> [m |-> -57538966, e |-> -9]
      [] x.m = -57602549 /\ x.e = -5 -> [m |-> -15690603, e |-> -7]
      [] x.m = -49373613 /\ x.e = -9 -> [m |-> -49333551, e |-> -9]
      [] x.m = -49373613 /\ x.e = -5 -> [m |-> -1568771, e |-> -6]
      [] x.m = -49365384 /\ x.e = -9 -> [m |-> -49325342, e |-> -9]
      [] x.m = -49365384 /\ x.e = -5 -> [m |-> -15687706, e |-> -7]
      [] x.m = -49357156 /\ x.e = -9 -> [m |-> -49317134, e |-> -9]
      [] x.m = -49357156 /\ x.e = -5 -> [m |-> -15687703, e |-> -7]
      [] x.m = -41144678 /\ x.e = -9 -> [m |-> -41121484, e |-> -9]
      [] x.m = -41144678 /\ x.e = -5 -> [m |-> -15683659, e |-> -7]
      [] x.m = -32915742 /\ x.e = -11 -> [m |-> -32915741, e |-> -11]
      [] x.m = -32915742 /\ x.e = -8 -> [m |-> -31798754, e |-> -8]
      [] x.m = -16490787 /\ x.e = -8 -> [m |-> -16343693, e |-> -8]
      [] x.m = -16474329 /\ x.e = -8 -> [m |-> -1632767, e |-> -7]
      [] x.m = -16457871 /\ x.e = -12 -> [m |-> -16457871, e |-> -12]
      [] x.m = -16457871 /\ x.e = -11 -> [m |-> -16457871, e |-> -11]
      [] x.m = -16457871 /\ x.e = -9 -> [m |-> -16456385, e |-> -9]
      [] x.m = -16457871 /\ x.e = -8 -> [m |-> -16311647, e |-> -8]
      [] x.m = -16457871 /\ x.e = -5 -> [m |-> -15647203, e |-> -7]
      [] x.m = -16441413 /\ x.e = -8 -> [m |-> -16295622, e |-> -8]
      [] x.m = -16424955 /\ x.e = -8 -> [m |-> -16279597, e |-> -8]
      [] x.m = -1152051 /\ x.e = -6 -> [m |-> -85593494, e |-> -8]
      [] x.m = 0 /\ x.e = 0 -> [m |-> 0, e |-> 0]
      [] x.m = 1152051 /\ x.e = -6 -> [m |-> 85593494, e |-> -8]
      [] x.m = 13184307 /\ x.e = -7 -> [m |-> 92189167, e |-> -8]
      [] x.m = 16424955 /\ x.e = -8 -> [m |-> 16279597, e |-> -8]
      [] x.m = 16441413 /\ x.e = -8 -> [m |-> 16295622, e |-> -8]
      [] x.m = 16457871 /\ x.e = -12 -> [m |-> 16457871, e |-> -12]
      [] x.m = 16457871 /\ x.e = -11 -> [m |-> 16457871, e |-> -11]
      [] x.m = 16457871 /\ x.e = -9 -> [m |-> 16456385, e |-> -9]
      [] x.m = 16457871 /\ x.e = -8 -> [m |-> 16311647, e |-> -8]
      [] x.m = 16457871 /\ x.e = -7 -> [m |-> 10247986, e |-> -7]
      [] x.m = 16457871 /\ x.e = -5 -> [m |-> 15647203, e |-> -7]
      [] x.m = 16474329 /\ x.e = -8 -> [m |-> 1632767, e |-> -7]
      [] x.m = 16480383 /\ x.e = -8 -> [m |-> 16333564, e |-> -8]
      [] x.m = 16490787 /\ x.e = -8 -> [m |-> 16343693, e |-> -8]
      [] x.m = 32915742 /\ x.e = -11 -> [m |-> 32915741, e |-> -11]
      [] x.m = 32915742 /\ x.e = -8 -> [m |-> 31798754, e |-> -8]
      [] x.m = 32960767 /\ x.e = -9 -> [m |-> 32948838, e |-> -9]
      [] x.m = 32960767 /\ x.e = -8 -> [m |-> 31839372, e |-> -8]
      [] x.m = 41144678 /\ x.e = -9 -> [m |-> 41121484, e |-> -9]
      [] x.m = 41144678 /\ x.e = -5 -> [m |-> 15683659, e |-> -7]
      [] x.m = 49357156 /\ x.e = -9 -> [m |-> 49317134, e |-> -9]
      [] x.m = 49357156 /\ x.e = -5 -> [m |-> 15687703, e |-> -7]
      [] x.m = 49365384 /\ x.e = -9 -> [m |-> 49325342, e |-> -9]
      [] x.m = 49365384 /\ x.e = -5 -> [m |-> 15687706, e |-> -7]
      [] x.m = 49373613 /\ x.e = -9 -> [m |-> 49333551, e |-> -9]
      [] x.m = 49373613 /\ x.e = -5 -> [m |-> 1568771, e |-> -6]
      [] x.m = 57602549 /\ x.e = -9 -> [m |-> 57538966, e |-> -9]
      [] x.m = 57602549 /\ x.e = -5 -> [m |-> 15690603, e |-> -7]
      [] x.m = 68668264 /\ x.e = -8 -> [m |-> 60173211, e |-> -8]
      [] x.m = 82124777 /\ x.e = -10 -> [m |-> 82122931, e |-> -10]
      [] x.m = 82124777 /\ x.e = -6 -> [m |-> 15586203, e |-> -7]
      [] x.m = 82207066 /\ x.e = -10 -> [m |-> 82205214, e |-> -10]
      [] x.m = 82207066 /\ x.e = -6 -> [m |-> 15586325, e |-> -7]
      [] x.m = 82289356 /\ x.e = -13 -> [m |-> 82289356, e |-> -13]
      [] x.m = 82289356 /\ x.e = -10 -> [m |-> 82287499, e |-> -10]
      [] x.m = 82289356 /\ x.e = -9 -> [m |-> 82104365, e |-> -9]
      [] x.m = 82289356 /\ x.e = -8 -> [m |-> 68854538, e |-> -8]
      [] x.m = 82289356 /\ x.e = -6 -> [m |-> 15586447, e |-> -7]
      [] x.m = 82371645 /\ x.e = -10 -> [m |-> 82369782, e |-> -10]
      [] x.m = 82371645 /\ x.e = -6 -> [m |-> 15586568, e |-> -7]
      [] x.m = 82453934 /\ x.e = -10 -> [m |-> 82452065, e |-> -10]
      [] x.m = 82453934 /\ x.e = -6 -> [m |-> 15586689, e |-> -7]
      [] x.m = 98714311 /\ x.e = -8 -> [m |-> 77892822, e |-> -8]
      [] x.m = 98730769 /\ x.e = -8 -> [m |-> 77901156, e |-> -8]
      [] x.m = 98747227 /\ x.e = -8 -> [m |-> 7790949, e |-> -7]
      [] OTHER -> Untabulated
\* TABLES-END

(***************************************************************************)
(* wind_calculator.cpp                                                     *)
(***************************************************************************)
RECURSIVE WhileNegative(_)
WhileNegative(angle) ==
    IF FLt(angle, Zero) THEN WhileNegative(FAdd(angle, F(360, 0))) ELSE angle

RECURSIVE WhileFullTurn(_)
WhileFullTurn(angle) ==
    IF FGe(angle, F(360, 0)) THEN WhileFullTurn(FSub(angle, F(360, 0))) ELSE angle

\* a plausible slip: one step each way instead of the loops
normalize_angle_once(angle) ==
    LET up == IF FLt(angle, Zero) THEN FAdd(angle, F(360, 0)) ELSE angle
    IN  IF FGe(up, F(360, 0)) THEN FSub(up, F(360, 0)) ELSE up

normalize_angle(angle) == WhileFullTurn(WhileNegative(angle))

\* a plausible slip: >= 180.0 for > 180.0
rewrap_closed(angle) ==
    IF FGe(angle, F(180, 0)) THEN FSub(angle, F(360, 0)) ELSE angle

\* if (x > 180.0) x -= 360.0
rewrap(angle) ==
    IF FGt(angle, F(180, 0)) THEN FSub(angle, F(360, 0)) ELSE angle

\* a plausible slip: the negation left out
headwind_not_negated(wind_speed, wind_from_rad) ==
    FMul(wind_speed, std_cos(wind_from_rad))

headwind_component(wind_speed, wind_from_rad) ==
    FMul(FNeg(wind_speed), std_cos(wind_from_rad))

crosswind_component(wind_speed, wind_from_rad) ==
    FMul(wind_speed, std_sin(wind_from_rad))

calculate_wind(track0, heading0, wind_dir0, wind_speed) ==
    LET track    == normalize_angle(track0)
        heading  == normalize_angle(heading0)
        wind_dir == normalize_angle(wind_dir0)
        drift    == rewrap(normalize_angle(FSub(track, heading)))
        wind_from_relative == rewrap(normalize_angle(FSub(wind_dir, track)))
        wind_from_rad == FMul(wind_from_relative, DEG_TO_RAD)
    IN  [headwind   |-> headwind_component(wind_speed, wind_from_rad),
         crosswind  |-> crosswind_component(wind_speed, wind_from_rad),
         total_wind |-> wind_speed,
         wca        |-> Zero,
         drift      |-> drift]

wind_print_json(wind) ==
    << <<"{">>,
       <<"headwind", Fixed2(wind.headwind)>>,
       <<"crosswind", Fixed2(wind.crosswind)>>,
       <<"total_wind", Fixed2(wind.total_wind)>>,
       <<"wca", Fixed2(wind.wca)>>,
       <<"drift", Fixed2(wind.drift)>>,
       <<"}">> >>

(***************************************************************************)
(* turn_calculator.cpp                                                     *)
(***************************************************************************)
\* a plausible slip: a band ten times narrower
wings_level_narrow(tan_phi) == FLt(FAbs(tan_phi), F(1, -4))

\* std::abs(tan_phi) < 0.001
wings_level(tan_phi) == FLt(FAbs(tan_phi), F(1, -3))

\* a plausible slip: metres divided by NM_TO_FT, the conversion to feet skipped
feet_to_nm_skipped(length_ft) == FDiv(FDiv(length_ft, F(328084, -5)), NM_TO_FT)

\* x_nm = x_ft / NM_TO_FT
feet_to_nm(length_ft) == FDiv(length_ft, NM_TO_FT)

\* a plausible slip: the magnitude of the rate tested
turning_magnitude(turn_rate_dps) == FGt(FAbs(turn_rate_dps), F(1, -2))

\* result.turn_rate_dps > 0.01
turning(turn_rate_dps) == FGt(turn_rate_dps, F(1, -2))

calculate_turn_performance(tas_kts, bank_deg, course_change_deg) ==
    LET v_ms          == FMul(tas_kts, KTS_TO_MS)
        phi_rad       == FMul(bank_deg, DEG_TO_RAD)
        delta_psi_rad == FMul(course_change_deg, DEG_TO_RAD)
        load_factor   == FDiv(F(1, 0), std_cos(phi_rad))
        tan_phi       == std_tan(phi_rad)
        radius_m      == FDiv(FMul(v_ms, v_ms), FMul(GRAVITY, tan_phi))
        radius_ft     == FMul(radius_m, F(328084, -5))
        omega_rad_s   == FDiv(FMul(GRAVITY, tan_phi), v_ms)
        turn_rate_dps == FMul(omega_rad_s, RAD_TO_DEG)
        lead_m        == FMul(radius_m, std_tan(FDiv(delta_psi_rad, F(2, 0))))
        lead_ft       == FMul(lead_m, F(328084, -5))
        omega_std_rad_s == FMul(STANDARD_RATE, DEG_TO_RAD)
        phi_std_rad   == std_atan(FDiv(FMul(omega_std_rad_s, v_ms), GRAVITY))
        standard_rate_bank == FMul(phi_std_rad, RAD_TO_DEG)
    IN  IF wings_level(tan_phi)
        THEN [radius_nm          |-> F(9999, -1),
              radius_ft          |-> F(999900, 0),
              turn_rate_dps      |-> Zero,
              lead_distance_nm   |-> Zero,
              lead_distance_ft   |-> Zero,
              time_to_turn_sec   |-> F(9999, -1),
              load_factor        |-> load_factor,
              standard_rate_bank |-> standard_rate_bank]
        ELSE [radius_nm          |-> feet_to_nm(radius_ft),
              radius_ft          |-> radius_ft,
              turn_rate_dps      |-> turn_rate_dps,
              lead_distance_nm   |-> feet_to_nm(lead_ft),
              lead_distance_ft   |-> lead_ft,
              time_to_turn_sec   |->
                  IF turning(turn_rate_dps)
                  THEN FDiv(FAbs(course_change_deg), turn_rate_dps)
                  ELSE F(9999, -1),
              load_factor        |-> load_factor,
              standard_rate_bank |-> standard_rate_bank]

turn_print_json(turn) ==
    << <<"{">>,
       <<"radius_nm", Fixed2(turn.radius_nm)>>,
       <<"radius_ft", Fixed2(turn.radius_ft)>>,
       <<"turn_rate_dps", Fixed2(turn.turn_rate_dps)>>,
       <<"lead_distance_nm", Fixed2(turn.lead_distance_nm)>>,
       <<"lead_distance_ft", Fixed2(turn.lead_distance_ft)>>,
       <<"time_to_turn_sec", Fixed2(turn.time_to_turn_sec)>>,
       <<"load_factor", Fixed2(turn.load_factor)>>,
       <<"standard_rate_bank", Fixed2(turn.standard_rate_bank)>>,
       <<"}">> >>

(***************************************************************************)
(* vnav_calculator.cpp                                                     *)
(***************************************************************************)
\* a plausible slip: the floor applied one decimal place up
floor_distance_coarse(distance_nm) ==
    IF FLt(distance_nm, F(1, -1)) THEN F(1, -1) ELSE distance_nm

\* if (distance_nm < 0.01) distance_nm = 0.01
floor_distance(distance_nm) ==
    IF FLt(distance_nm, F(1, -2)) THEN F(1, -2) ELSE distance_nm

\* a plausible slip: the typical idle band, 2.5 to 3.5 degrees
descent_on_idle_path_typical(abs_fpa) ==
    FGe(abs_fpa, F(25, -1)) /\ FLe(abs_fpa, F(35, -1))

\* abs_fpa >= 2.0 && abs_fpa <= 4.0
descent_on_idle_path(abs_fpa) ==
    FGe(abs_fpa, F(2, 0)) /\ FLe(abs_fpa, F(4, 0))

calculate_vnav(current_alt_ft, target_alt_ft, distance_nm0, groundspeed_kts0) ==
    LET altitude_change_ft == FSub(target_alt_ft, current_alt_ft)
        is_descent      == FLt(altitude_change_ft, Zero)
        distance_nm     == floor_distance(distance_nm0)
        groundspeed_kts == IF FLt(groundspeed_kts0, F(1, 0)) THEN F(1, 0)
                           ELSE groundspeed_kts0
        distance_ft     == FMul(distance_nm, NM_TO_FT)
        gamma_rad       == std_atan(FDiv(altitude_change_ft, distance_ft))
        flight_path_angle_deg == FMul(gamma_rad, RAD_TO_DEG)
        abs_fpa         == FAbs(flight_path_angle_deg)
    IN  [altitude_to_lose_ft    |-> FNeg(altitude_change_ft),
         flight_path_angle_deg  |-> flight_path_angle_deg,
         required_vs_fpm        |->
             FMul(FMul(F(10127, -2), groundspeed_kts), std_tan(gamma_rad)),
         tod_distance_nm        |->
             IF is_descent
             THEN FDiv(FAbs(altitude_change_ft),
                       FMul(NM_TO_FT, std_tan(FMul(F(3, 0), DEG_TO_RAD))))
             ELSE Zero,
         time_to_constraint_min |->
             FMul(FDiv(distance_nm, groundspeed_kts), F(60, 0)),
         distance_per_1000ft    |->
             IF FGt(FAbs(altitude_change_ft), F(10, 0))
             THEN FDiv(FMul(distance_nm, F(1000, 0)), FAbs(altitude_change_ft))
             ELSE F(9999, -1),
         is_descent             |-> is_descent,
         on_idle_path           |->
             IF is_descent
             THEN descent_on_idle_path(abs_fpa)
             ELSE FGe(flight_path_angle_deg, F(5, -1))
                  /\ FLe(flight_path_angle_deg, F(15, 0))]

\* a plausible slip: >= for > in both tests
maintaining_current_vs_inclusive(current_vs_fpm, groundspeed_kts) ==
    FGe(FAbs(current_vs_fpm), F(10, 0)) /\ FGe(groundspeed_kts, F(1, 0))

\* std::abs(current_vs_fpm) > 10.0 && groundspeed_kts > 1.0
maintaining_current_vs(current_vs_fpm, groundspeed_kts) ==
    FGt(FAbs(current_vs_fpm), F(10, 0)) /\ FGt(groundspeed_kts, F(1, 0))

calculate_vnav_helpers(groundspeed_kts, current_vs_fpm, altitude_change_ft) ==
    LET time_min == FDiv(altitude_change_ft, current_vs_fpm)
        dist     == FDiv(FMul(time_min, groundspeed_kts), F(60, 0))
    IN  [vs_for_3deg |->
             FMul(FMul(F(-10127, -2), groundspeed_kts), std_tan(THREE_DEG_RAD)),
         vs_for_5deg |->
             FMul(FMul(F(-10127, -2), groundspeed_kts), std_tan(FIVE_DEG_RAD)),
         distance_remaining_at_current_vs |->
             IF maintaining_current_vs(current_vs_fpm, groundspeed_kts)
             THEN (IF FLt(dist, Zero) THEN F(9999, -1) ELSE dist)
             ELSE F(9999, -1)]

BoolText(b) == IF b THEN "true" ELSE "false"

vnav_print_json(vnav, helpers) ==
    << <<"{">>,
       <<"altitude_to_lose_ft", Fixed2(vnav.altitude_to_lose_ft)>>,
       <<"flight_path_angle_deg", Fixed2(vnav.flight_path_angle_deg)>>,
       <<"required_vs_fpm", Fixed2(vnav.required_vs_fpm)>>,
       <<"tod_distance_nm", Fixed2(vnav.tod_distance_nm)>>,
       <<"time_to_constraint_min", Fixed2(vnav.time_to_constraint_min)>>,
       <<"distance_per_1000ft", Fixed2(vnav.distance_per_1000ft)>>,
       <<"is_descent", BoolText(vnav.is_descent)>>,
       <<"on_idle_path", BoolText(vnav.on_idle_path)>>,
       <<"vs_for_3deg", Fixed2(helpers.vs_for_3deg)>>,
       <<"vs_for_5deg", Fixed2(helpers.vs_for_5deg)>>,
       <<"distance_at_current_vs_nm", Fixed2(helpers.distance_remaining_at_current_vs)>>,
       <<"}">> >>

(***************************************************************************)
(* main(): argv[0] and the arguments each run may be given                 *)
(***************************************************************************)
Programs == {"turn", "vnav", "wind"}

program_name(p) ==
    CASE p = "turn" -> "./turn_calculator"
      [] p = "vnav" -> "./vnav_calculator"
      [] p = "wind" -> "./wind_calculator"

TurnTas == {<<"2", "5", "0">>, <<"0">>, <<"-", "1", "0">>, <<"a", "b", "c">>, <<" ", "1", "2", "k", "t">>}
TurnBank == {<<"2", "5">>, <<"8", "5">>, <<"-", "8", "5">>, <<"8", "5", ".", "0", "0", "0", "1">>, <<"-", "8", "6">>, <<"0">>, <<>>}
TurnCourse == {<<"9", "0">>, <<"-", "4", "5">>, <<"x">>}

VnavCurrentAlt == {<<"3", "5", "0", "0", "0">>, <<"5", "0", "0", "0">>, <<"a", "b", "c">>}
VnavTargetAlt == {<<"1", "0", "0", "0", "0">>, <<"5", "0", "0", "0">>, <<"-">>}
VnavDistance == {<<"1", "0", "0">>, <<"0">>, <<"-", "1">>, <<".", "5">>, <<"n", "m">>}
VnavGroundspeed == {<<"4", "5", "0">>, <<"0">>, <<"-", "5">>, <<"0", ".", "5">>, <<"f", "a", "s", "t">>}
VnavCurrentVs == {<<"-", "1", "5", "0", "0">>, <<"0">>, <<"+", "8", "0", "0">>, <<"a", "b", "c">>}

WindTrack == {<<"9", "0">>, <<"-", "2", "7", "0">>, <<"4", "5", " ", "d", "e", "g">>, <<"n", "o", "r", "t", "h">>}
WindHeading == {<<"8", "5">>, <<"4", "5", "0">>, <<"h">>}
WindDir == {<<"2", "7", "0">>, <<"9", "0">>, <<".">>}
WindSpeed == {<<"1", "5">>, <<"0">>, <<"-", "1">>, <<>>}

ExtraArg == {<<"1">>}

Argv(p) ==
    CASE p = "turn" ->
             {<<a, b>> : a \in TurnTas, b \in TurnBank}
             \cup {<<a, b, c>> : a \in TurnTas, b \in TurnBank, c \in TurnCourse}
             \cup {<<a, b, c, d>> : a \in TurnTas, b \in TurnBank,
                                    c \in TurnCourse, d \in ExtraArg}
      [] p = "vnav" ->
             {<<a, b, c>> : a \in VnavCurrentAlt, b \in VnavTargetAlt,
                            c \in VnavDistance}
             \cup {<<a, b, c, d>> : a \in VnavCurrentAlt, b \in VnavTargetAlt,
                                    c \in VnavDistance, d \in VnavGroundspeed}
             \cup {<<a, b, c, d, f>> : a \in VnavCurrentAlt, b \in VnavTargetAlt,
                                       c \in VnavDistance, d \in VnavGroundspeed,
                                       f \in VnavCurrentVs}
             \cup {<<a, b, c, d, f, g>> : a \in VnavCurrentAlt, b \in VnavTargetAlt,
                                          c \in VnavDistance, d \in VnavGroundspeed,
                                          f \in VnavCurrentVs, g \in ExtraArg}
      [] p = "wind" ->
             {<<a, b, c>> : a \in WindTrack, b \in WindHeading, c \in WindDir}
             \cup {<<a, b, c, d>> : a \in WindTrack, b \in WindHeading,
                                    c \in WindDir, d \in WindSpeed}
             \cup {<<a, b, c, d, f>> : a \in WindTrack, b \in WindHeading,
                                       c \in WindDir, d \in WindSpeed, f \in ExtraArg}

turn_print_usage(name) ==
    << <<"Usage: ", name, " <tas_kts> <bank_deg> <course_change_deg>">>,
       <<"">>,
       <<"Arguments:">>,
       <<"  tas_kts          : True airspeed (knots)">>,
       <<"  bank_deg         : Bank angle (degrees)">>,
       <<"  course_change_deg: Course change required (degrees)">>,
       <<"">>,
       <<"Example:">>,
       <<"  ", name, " 250 25 90">>,
       <<"  (250 knots TAS, 25 deg bank, 90 deg turn)">> >>

vnav_print_usage(name) ==
    << <<"Usage: ", name,
         " <current_alt_ft> <target_alt_ft> <distance_nm> <groundspeed_kts> [current_vs_fpm]">>,
       <<"">>,
       <<"Arguments:">>,
       <<"  current_alt_ft  : Current altitude (feet)">>,
       <<"  target_alt_ft   : Target altitude at constraint (feet)">>,
       <<"  distance_nm     : Distance to constraint (nautical miles)">>,
       <<"  groundspeed_kts : Current groundspeed (knots)">>,
       <<"  current_vs_fpm  : Current vertical speed (optional, ft/min)">>,
       <<"">>,
       <<"Example:">>,
       <<"  ", name, " 35000 10000 100 450 -1500">>,
       <<"  (Descend from FL350 to 10000 ft, 100 nm away, GS 450 kts, VS -1500 fpm)">> >>

wind_print_usage(name) ==
    << <<"Usage: ", name, " <track> <heading> <wind_dir> <wind_speed>">>,
       <<"">>,
       <<"Arguments:">>,
       <<"  track      : Ground track (degrees true)">>,
       <<"  heading    : Aircraft heading (degrees)">>,
       <<"  wind_dir   : Wind direction FROM (degrees)">>,
       <<"  wind_speed : Wind speed (knots)">>,
       <<"">>,
       <<"Example:">>,
       <<"  ", name, " 90 85 270 15">>,
       <<"  (Track 90 deg, Heading 85 deg, Wind from 270 deg at 15 knots)">> >>

\* return 1 after writing lines to std::cerr
Fail(lines) ==
    /\ stderr' = stderr \o lines
    /\ exit_code' = 1
    /\ pc' = "done"

\* execution goes on at label next
Goto(next) ==
    /\ pc' = next
    /\ UNCHANGED <<stderr, exit_code>>

e_what == "stod"

(***************************************************************************)
(* turn_calculator.cpp: main                                               *)
(***************************************************************************)
turn_main_args ==
    /\ prog = "turn" /\ pc = "start"
    /\ IF Len(args) # 3
       THEN Fail(turn_print_usage(program_name(prog)))
       ELSE Goto("parse")
    /\ UNCHANGED <<prog, args, vals, stdout, w_in, w_out, t_in, t_out, v_in, v_out>>

turn_main_parse ==
    /\ prog = "turn" /\ pc = "parse"
    /\ LET r == parse_double(args[Len(vals) + 1])
       IN  IF r.ok
           THEN /\ vals' = Append(vals, r.val)
                /\ Goto(IF Len(vals) + 1 = 3 THEN "validate" ELSE "parse")
           ELSE /\ vals' = vals
                /\ Fail(<< <<"Error: ", e_what>> >>
                        \o turn_print_usage(program_name(prog)))
    /\ UNCHANGED <<prog, args, stdout, w_in, w_out, t_in, t_out, v_in, v_out>>

\* variant: the bank limit taken as exclusive (>= 85.0)
turn_main_validate_exclusive ==
    /\ prog = "turn" /\ pc = "validate"
    /\ IF FLe(vals[1], Zero)
       THEN Fail(<< <<"Error: TAS must be positive">> >>)
       ELSE IF FGe(FAbs(vals[2]), F(85, 0))
       THEN Fail(<< <<"Error: Bank angle must be between -85 and 85 degrees">> >>)
       ELSE Goto("calculate")
    /\ UNCHANGED <<prog, args, vals, stdout, w_in, w_out, t_in, t_out, v_in, v_out>>

turn_main_validate ==
    /\ prog = "turn" /\ pc = "validate"
    /\ IF FLe(vals[1], Zero)
       THEN Fail(<< <<"Error: TAS must be positive">> >>)
       ELSE IF FGt(FAbs(vals[2]), F(85, 0))
       THEN Fail(<< <<"Error: Bank angle must be between -85 and 85 degrees">> >>)
       ELSE Goto("calculate")
    /\ UNCHANGED <<prog, args, vals, stdout, w_in, w_out, t_in, t_out, v_in, v_out>>

turn_main_calculate ==
    /\ prog = "turn" /\ pc = "calculate"
    /\ t_out' = calculate_turn_performance(vals[1], vals[2], vals[3])
    /\ Goto("print")
    /\ UNCHANGED <<prog, args, vals, stdout, w_in, w_out, t_in, v_in, v_out>>

turn_main_print ==
    /\ prog = "turn" /\ pc = "print"
    /\ stdout' = stdout \o turn_print_json(t_out)
    /\ exit_code' = 0
    /\ pc' = "done"
    /\ UNCHANGED <<prog, args, vals, stderr, w_in, w_out, t_in, t_out, v_in, v_out>>

(***************************************************************************)
(* vnav_calculator.cpp: main                                               *)
(***************************************************************************)
vnav_main_args ==
    /\ prog = "vnav" /\ pc = "start"
    /\ IF Len(args) < 4 \/ Len(args) > 5
       THEN Fail(vnav_print_usage(program_name(prog)))
       ELSE Goto("parse")
    /\ UNCHANGED <<prog, args, vals, stdout, w_in, w_out, t_in, t_out, v_in, v_out>>

\* the fifth value is 0.0 when args.size() is 4
vnav_main_parse ==
    /\ prog = "vnav" /\ pc = "parse"
    /\ LET i == Len(vals) + 1
           r == IF i = 5 /\ Len(args) # 5
                THEN [ok |-> TRUE, val |-> Zero]
                ELSE parse_double(args[i])
       IN  IF r.ok
           THEN /\ vals' = Append(vals, r.val)
                /\ Goto(IF i = 5 THEN "validate" ELSE "parse")
           ELSE /\ vals' = vals
                /\ Fail(<< <<"Error: ", e_what>> >>
                        \o vnav_print_usage(program_name(prog)))
    /\ UNCHANGED <<prog, args, stdout, w_in, w_out, t_in, t_out, v_in, v_out>>

\* variant: a domain error also prints the usage text
vnav_main_validate_usage ==
    /\ prog = "vnav" /\ pc = "validate"
    /\ IF FLt(vals[3], Zero)
       THEN Fail(<< <<"Error: Distance cannot be negative">> >>
                 \o vnav_print_usage(program_name(prog)))
       ELSE IF FLe(vals[4], Zero)
       THEN Fail(<< <<"Error: Groundspeed must be positive">> >>
                 \o vnav_print_usage(program_name(prog)))
       ELSE Goto("calculate")
    /\ UNCHANGED <<prog, args, vals, stdout, w_in, w_out, t_in, t_out, v_in, v_out>>

vnav_main_validate ==
    /\ prog = "vnav" /\ pc = "validate"
    /\ IF FLt(vals[3], Zero)
       THEN Fail(<< <<"Error: Distance cannot be negative">> >>)
       ELSE IF FLe(vals[4], Zero)
       THEN Fail(<< <<"Error: Groundspeed must be positive">> >>)
       ELSE Goto("calculate")
    /\ UNCHANGED <<prog, args, vals, stdout, w_in, w_out, t_in, t_out, v_in, v_out>>

vnav_main_calculate ==
    /\ prog = "vnav" /\ pc = "calculate"
    /\ v_out' = [vnav    |-> calculate_vnav(vals[1], vals[2], vals[3], vals[4]),
                 helpers |-> calculate_vnav_helpers(vals[4], vals[5],
                                                    FSub(vals[2], vals[1]))]
    /\ Goto("print")
    /\ UNCHANGED <<prog, args, vals, stdout, w_in, w_out, t_in, t_out, v_in>>

vnav_main_print ==
    /\ prog = "vnav" /\ pc = "print"
    /\ stdout' = stdout \o vnav_print_json(v_out.vnav, v_out.helpers)
    /\ exit_code' = 0
    /\ pc' = "done"
    /\ UNCHANGED <<prog, args, vals, stderr, w_in, w_out, t_in, t_out, v_in, v_out>>

(***************************************************************************)
(* wind_calculator.cpp: main                                               *)
(***************************************************************************)
wind_main_args ==
    /\ prog = "wind" /\ pc = "start"
    /\ IF Len(args) # 4
       THEN Fail(wind_print_usage(program_name(prog)))
       ELSE Goto("parse")
    /\ UNCHANGED <<prog, args, vals, stdout, w_in, w_out, t_in, t_out, v_in, v_out>>

wind_main_parse ==
    /\ prog = "wind" /\ pc = "parse"
    /\ LET r == parse_double(args[Len(vals) + 1])
       IN  IF r.ok
           THEN /\ vals' = Append(vals, r.val)
                /\ Goto(IF Len(vals) + 1 = 4 THEN "validate" ELSE "parse")
           ELSE /\ vals' = vals
                /\ Fail(<< <<"Error parsing arguments: ", e_what>> >>
                        \o wind_print_usage(program_name(prog)))
    /\ UNCHANGED <<prog, args, stdout, w_in, w_out, t_in, t_out, v_in, v_out>>

\* variant: the diagnostic is written but the return is missing
wind_main_validate_falls_through ==
    /\ prog = "wind" /\ pc = "validate"
    /\ stderr' = IF FLt(vals[4], Zero)
                 THEN stderr \o << <<"Error: Wind speed cannot be negative">> >>
                 ELSE stderr
    /\ pc' = "calculate"
    /\ UNCHANGED <<prog, args, vals, stdout, exit_code,
                   w_in, w_out, t_in, t_out, v_in, v_out>>

wind_main_validate ==
    /\ prog = "wind" /\ pc = "validate"
    /\ IF FLt(vals[4], Zero)
       THEN Fail(<< <<"Error: Wind speed cannot be negative">> >>)
       ELSE Goto("calculate")
    /\ UNCHANGED <<prog, args, vals, stdout, w_in, w_out, t_in, t_out, v_in, v_out>>

wind_main_calculate ==
    /\ prog = "wind" /\ pc = "calculate"
    /\ w_out' = calculate_wind(vals[1], vals[2], vals[3], vals[4])
    /\ Goto("print")
    /\ UNCHANGED <<prog, args, vals, stdout, w_in, t_in, t_out, v_in, v_out>>

wind_main_print ==
    /\ prog = "wind" /\ pc = "print"
    /\ stdout' = stdout \o wind_print_json(w_out)
    /\ exit_code' = 0
    /\ pc' = "done"
    /\ UNCHANGED <<prog, args, vals, stderr, w_in, w_out, t_in, t_out, v_in, v_out>>

(***************************************************************************)
(* One run of one calculator: the process starts with empty streams and no *)
(* exit code (-1) and runs main to its return.                             *)
(***************************************************************************)
Init ==
    /\ prog \in Programs
    /\ args \in Argv(prog)
    /\ pc = "start"
    /\ vals = <<>>
    /\ stdout = <<>>
    /\ stderr = <<>>
    /\ exit_code = -1
    /\ w_in = <<>> /\ w_out = <<>>
    /\ t_in = <<>> /\ t_out = <<>>
    /\ v_in = <<>> /\ v_out = <<>>

Next ==
    \/ turn_main_args
    \/ turn_main_parse
    \/ turn_main_validate
    \/ turn_main_calculate
    \/ turn_main_print
    \/ vnav_main_args
    \/ vnav_main_parse
    \/ vnav_main_validate
    \/ vnav_main_calculate
    \/ vnav_main_print
    \/ wind_main_args
    \/ wind_main_parse
    \/ wind_main_validate
    \/ wind_main_calculate
    \/ wind_main_print

Spec == Init /\ [][Next]_vars

(***************************************************************************)
(* calculate_wind on its own: angles are drawn in millionths of a degree   *)
(* and handed over with whole turns added, track + 360 i and so on; the    *)
(* sum is rounded to a double as any double sum is.                        *)
(***************************************************************************)
MaxTurns == 2

WindTracks == {0, 90000000, 280123450}

WindHeadings == {180000000, 100123450}

WindDirs == {0, 90000000, 180000000, 270000000, 30000000}

WindSpeeds == {Zero, F(15, 0)}

\* the double for u millionths of a degree plus i whole turns
Degrees(u, i) == F(u + 360000000 * i, -6)

InitWind ==
    /\ w_in \in [track : WindTracks, heading : WindHeadings, wind_dir : WindDirs,
                 wind_speed : WindSpeeds,
                 i : -MaxTurns..MaxTurns, j : -MaxTurns..MaxTurns,
                 k : -MaxTurns..MaxTurns]
    /\ w_out = <<>>
    /\ pc = "call"
    /\ prog = "wind"
    /\ args = <<>> /\ vals = <<>> /\ stdout = <<>> /\ stderr = <<>>
    /\ exit_code = -1
    /\ t_in = <<>> /\ t_out = <<>> /\ v_in = <<>> /\ v_out = <<>>

wind_call ==
    /\ prog = "wind" /\ pc = "call"
    /\ w_out' = calculate_wind(Degrees(w_in.track, w_in.i),
                               Degrees(w_in.heading, w_in.j),
                               Degrees(w_in.wind_dir, w_in.k),
                               w_in.wind_speed)
    /\ pc' = "return"
    /\ UNCHANGED <<prog, args, vals, stdout, stderr, exit_code,
                   w_in, t_in, t_out, v_in, v_out>>

NextWind == wind_call

SpecWind == InitWind /\ [][NextWind]_vars

(***************************************************************************)
(* calculate_turn_performance on its own, over inputs main lets through    *)
(* (tas_kts > 0, |bank_deg| <= 85).                                        *)
(***************************************************************************)
TurnSpeeds == {F(60, 0), F(120, 0), F(250, 0), F(480, 0)}

TurnBanks ==
    {F(-85, 0), F(-45, 0), F(-25, 0), F(-6, -2), F(-5, -2), Zero,
     F(5, -2), F(6, -2), F(25, 0), F(45, 0), F(85, 0)}

TurnCourses == {Zero, F(30, 0), F(90, 0), F(-90, 0), F(-45, 0), F(180, 0), F(270, 0)}

InitTurn ==
    /\ t_in \in [tas_kts : TurnSpeeds, bank_deg : TurnBanks,
                 course_change_deg : TurnCourses]
    /\ t_out = <<>>
    /\ pc = "call"
    /\ prog = "turn"
    /\ args = <<>> /\ vals = <<>> /\ stdout = <<>> /\ stderr = <<>>
    /\ exit_code = -1
    /\ w_in = <<>> /\ w_out = <<>> /\ v_in = <<>> /\ v_out = <<>>

turn_call ==
    /\ prog = "turn" /\ pc = "call"
    /\ t_out' = calculate_turn_performance(t_in.tas_kts, t_in.bank_deg,
                                           t_in.course_change_deg)
    /\ pc' = "return"
    /\ UNCHANGED <<prog, args, vals, stdout, stderr, exit_code,
                   w_in, w_out, t_in, v_in, v_out>>

NextTurn == turn_call

SpecTurn == InitTurn /\ [][NextTurn]_vars

(***************************************************************************)
(* calculate_vnav and calculate_vnav_helpers as main calls them, over      *)
(* inputs main lets through (distance_nm >= 0, groundspeed_kts > 0);       *)
(* current_vs_fpm is 0.0 when the fifth argument is left out.              *)
(***************************************************************************)
VnavAltitudes == {Zero, F(5000, 0), F(5005, 0), F(5010, 0), F(10000, 0), F(35000, 0)}

VnavDistances == {Zero, F(5, -3), F(1, -2), F(5, 0), F(100, 0)}

VnavSpeeds == {F(5, -1), F(1, 0), F(120, 0), F(450, 0)}

VnavVerticalSpeeds == {Zero, F(10, 0), F(-105, -1), F(800, 0), F(-1500, 0)}

InitVnav ==
    /\ v_in \in {x \in [current_alt_ft : VnavAltitudes, target_alt_ft : VnavAltitudes,
                        distance_nm : VnavDistances, groundspeed_kts : VnavSpeeds,
                        has_vs : BOOLEAN, current_vs_fpm : VnavVerticalSpeeds] :
                    ~x.has_vs => x.current_vs_fpm = Zero}
    /\ v_out = <<>>
    /\ pc = "call"
    /\ prog = "vnav"
    /\ args = <<>> /\ vals = <<>> /\ stdout = <<>> /\ stderr = <<>>
    /\ exit_code = -1
    /\ w_in = <<>> /\ w_out = <<>> /\ t_in = <<>> /\ t_out = <<>>

vnav_call ==
    /\ prog = "vnav" /\ pc = "call"
    /\ v_out' = [vnav    |-> calculate_vnav(v_in.current_alt_ft, v_in.target_alt_ft,
                                            v_in.distance_nm, v_in.groundspeed_kts),
                 helpers |-> calculate_vnav_helpers(
                                 v_in.groundspeed_kts, v_in.current_vs_fpm,
                                 FSub(v_in.target_alt_ft, v_in.current_alt_ft))]
    /\ pc' = "return"
    /\ UNCHANGED <<prog, args, vals, stdout, stderr, exit_code,
                   w_in, w_out, t_in, t_out, v_in>>

NextVnav == vnav_call

SpecVnav == InitVnav /\ [][NextVnav]_vars

(***************************************************************************)
(* Properties of the three command-line programs (Spec)                    *)
(***************************************************************************)
\* |x - y| <= 0.0001 + 0.000001 |y|
Close(x, y) ==
    FLe(FAbs(FSub(x, y)), FAdd(F(1, -4), FMul(F(1, -6), FAbs(y))))

\* no run evaluates a library function outside its table
TablesCover ==
    /\ w_out # <<>> => Untabulated \notin {w_out.headwind, w_out.crosswind}
    /\ t_out # <<>> => \A f \in DOMAIN t_out : t_out[f] # Untabulated
    /\ v_out # <<>> =>
           /\ \A f \in {"flight_path_angle_deg", "required_vs_fpm"} :
                  v_out.vnav[f] # Untabulated
           /\ \A f \in {"vs_for_3deg", "vs_for_5deg"} :
                  v_out.helpers[f] # Untabulated

\* the number of arguments is not one the program accepts
ArgCountWrong(p, a) ==
    CASE p = "turn" -> Len(a) # 3
      [] p = "vnav" -> Len(a) < 4 \/ Len(a) > 5
      [] p = "wind" -> Len(a) # 4

\* the count is accepted and some argument is not a number
Unparsable(p, a) ==
    /\ ~ArgCountWrong(p, a)
    /\ \E n \in 1..Len(a) : ~stod(a[n]).ok

\* the n-th argument as a number
Arg(a, n) == stod(a[n]).val

\* every argument is a number and one is outside its domain
OutOfDomain(p, a) ==
    /\ ~ArgCountWrong(p, a)
    /\ ~Unparsable(p, a)
    /\ CASE p = "turn" -> \/ FLe(Arg(a, 1), Zero)
                          \/ FGt(FAbs(Arg(a, 2)), F(85, 0))
         [] p = "vnav" -> \/ FLt(Arg(a, 3), Zero)
                          \/ FLe(Arg(a, 4), Zero)
         [] p = "wind" -> FLt(Arg(a, 4), Zero)

Rejects(p, a) == ArgCountWrong(p, a) \/ Unparsable(p, a) \/ OutOfDomain(p, a)

\* C1: a finished run has exit code 0 or 1, and it is 1 exactly when the
\* argument count is wrong, an argument is not a number, or a domain check
\* fails (true airspeed <= 0, |bank| > 85, distance < 0, groundspeed <= 0,
\* wind speed < 0); a bank of exactly 85 or -85 degrees is accepted.
C1_ExitCode ==
    pc = "done" =>
        /\ exit_code \in {0, 1}
        /\ exit_code = 1 <=> Rejects(prog, args)

\* C1 case: turn_calculator finishes with exit code 0 at a bank of -85
C1_Witness ==
    /\ pc = "done" /\ prog = "turn" /\ exit_code = 0
    /\ vals[2] = F(-85, 0)

\* the field names of each program's JSON object, in printing order
JsonFields(p) ==
    CASE p = "turn" -> <<"radius_nm", "radius_ft", "turn_rate_dps",
                         "lead_distance_nm", "lead_distance_ft",
                         "time_to_turn_sec", "load_factor",
                         "standard_rate_bank">>
      [] p = "vnav" -> <<"altitude_to_lose_ft", "flight_path_angle_deg",
                         "required_vs_fpm", "tod_distance_nm",
                         "time_to_constraint_min", "distance_per_1000ft",
                         "is_descent", "on_idle_path", "vs_for_3deg",
                         "vs_for_5deg", "distance_at_current_vs_nm">>
      [] p = "wind" -> <<"headwind", "crosswind", "total_wind", "wca", "drift">>

\* out is one JSON object with exactly the program's fields
IsJsonObject(out, p) ==
    /\ Len(out) = Len(JsonFields(p)) + 2
    /\ out[1] = <<"{">>
    /\ out[Len(out)] = <<"}">>
    /\ \A n \in 1..Len(JsonFields(p)) :
           Len(out[n + 1]) = 2 /\ out[n + 1][1] = JsonFields(p)[n]

\* C2: standard output is written only after every argument has been parsed
\* and every domain check has passed; a run that exits with 1 has written
\* nothing to it, and a run that exits with 0 has written exactly one JSON
\* object.
C2_StdoutOnlyOnSuccess ==
    /\ stdout # <<>> => pc = "done" /\ exit_code = 0 /\ ~Rejects(prog, args)
    /\ exit_code = 1 => stdout = <<>>
    /\ exit_code = 0 => IsJsonObject(stdout, prog)

\* C2 case: vnav_calculator parsed four of five arguments, failed on the
\* fifth and exits with 1 and an empty standard output
C2_Witness ==
    /\ pc = "done" /\ prog = "vnav" /\ exit_code = 1
    /\ Len(args) = 5 /\ Len(vals) = 4
    /\ stdout = <<>>

Usage(p) ==
    CASE p = "turn" -> turn_print_usage(program_name(p))
      [] p = "vnav" -> vnav_print_usage(program_name(p))
      [] p = "wind" -> wind_print_usage(program_name(p))

\* the line written when an argument is not a number
ParseDiagnostic(p) ==
    CASE p = "turn" -> <<"Error: ", e_what>>
      [] p = "vnav" -> <<"Error: ", e_what>>
      [] p = "wind" -> <<"Error parsing arguments: ", e_what>>

\* the lines written when a domain check fails
DomainDiagnostics(p) ==
    CASE p = "turn" -> {<<"Error: TAS must be positive">>,
                        <<"Error: Bank angle must be between -85 and 85 degrees">>}
      [] p = "vnav" -> {<<"Error: Distance cannot be negative">>,
                        <<"Error: Groundspeed must be positive">>}
      [] p = "wind" -> {<<"Error: Wind speed cannot be negative">>}

\* C3 as stated: every run that exits with 1 has written to standard error a
\* one-line diagnostic followed by the usage text.
C3_DiagnosticThenUsage ==
    pc = "done" /\ exit_code = 1 =>
        /\ Len(stderr) = 1 + Len(Usage(prog))
        /\ stderr[1] \in {ParseDiagnostic(prog)} \cup DomainDiagnostics(prog)
        /\ SubSeq(stderr, 2, Len(stderr)) = Usage(prog)

\* C3 as the code has it: a run that exits with 1 has written to standard
\* error the usage text alone when the argument count is wrong, the parse
\* diagnostic followed by the usage text when an argument is not a number,
\* and the one-line domain diagnostic alone when a domain check fails.
C3_StderrByFailure ==
    pc = "done" /\ exit_code = 1 =>
        /\ ArgCountWrong(prog, args) => stderr = Usage(prog)
        /\ Unparsable(prog, args) =>
               stderr = <<ParseDiagnostic(prog)>> \o Usage(prog)
        /\ OutOfDomain(prog, args) =>
               Len(stderr) = 1 /\ stderr[1] \in DomainDiagnostics(prog)
        /\ Rejects(prog, args)

\* C3 case: a domain check failed and standard error holds one line
C3_Witness ==
    /\ pc = "done" /\ exit_code = 1
    /\ OutOfDomain(prog, args)
    /\ Len(stderr) = 1

(***************************************************************************)
(* Properties of calculate_wind (SpecWind)                                 *)
(***************************************************************************)
\* a double holding at most six decimals, in millionths
Micro(x) == x.m * Pow10(x.e + 6)

\* millionths of a degree reduced to [0, 360)
Mod360(n) == n % 360000000

\* the arguments of the call
TrackArg == Degrees(w_in.track, w_in.i)

HeadingArg == Degrees(w_in.heading, w_in.j)

WindDirArg == Degrees(w_in.wind_dir, w_in.k)

\* (wind_dir - track) mod 360 of the arguments, in millionths, in [0, 360)
RelativeMicro == Mod360(Mod360(Micro(WindDirArg)) - Mod360(Micro(TrackArg)))

\* (track - heading) mod 360 of the arguments, in millionths, in [0, 360)
DifferenceMicro == Mod360(Mod360(Micro(TrackArg)) - Mod360(Micro(HeadingArg)))

\* millionths in [0, 360) moved to (-180, 180], as a double
Wrapped(n) == F(IF n > 180000000 THEN n - 360000000 ELSE n, -6)

\* C4 as stated: for wind_speed > 0, wind from the direction the aircraft is
\* tracking toward (wind_dir congruent to track) gives headwind = +wind_speed,
\* and wind from directly behind (wind_dir congruent to track + 180) gives
\* headwind = -wind_speed.
C4_HeadwindOpposesMotion ==
    pc = "return" /\ FGt(w_in.wind_speed, Zero) =>
        /\ RelativeMicro = 0 => Close(w_out.headwind, w_in.wind_speed)
        /\ RelativeMicro = 180000000 =>
               Close(w_out.headwind, FNeg(w_in.wind_speed))

BaseWind ==
    calculate_wind(Degrees(w_in.track, 0), Degrees(w_in.heading, 0),
                   Degrees(w_in.wind_dir, 0), w_in.wind_speed)

\* the three sums track + 360 i, heading + 360 j, wind_dir + 360 k are doubles
ExactSums ==
    /\ Micro(TrackArg) = w_in.track + 360000000 * w_in.i
    /\ Micro(HeadingArg) = w_in.heading + 360000000 * w_in.j
    /\ Micro(WindDirArg) = w_in.wind_dir + 360000000 * w_in.k

\* C6 as stated: calculate_wind(track + 360 i, heading + 360 j,
\* wind_dir + 360 k, wind_speed) returns the same headwind, crosswind,
\* total_wind, wca and drift as calculate_wind(track, heading, wind_dir,
\* wind_speed), here even allowing each field a rounding error.
C6_Periodic ==
    pc = "return" =>
        LET base == BaseWind
        IN  /\ Close(w_out.headwind, base.headwind)
            /\ Close(w_out.crosswind, base.crosswind)
            /\ Close(w_out.total_wind, base.total_wind)
            /\ Close(w_out.wca, base.wca)
            /\ Close(w_out.drift, base.drift)

\* C6 as the code has it: when the three sums are computed without rounding
\* the two results are identical; in every case total_wind and wca are
\* identical, headwind and crosswind agree up to rounding, and drift agrees
\* up to rounding modulo 360 (a drift of +180 may come back as just above
\* -180).
C6_PeriodicUpToRounding ==
    pc = "return" =>
        LET base == BaseWind
        IN  /\ ExactSums => w_out = base
            /\ w_out.total_wind = base.total_wind
            /\ w_out.wca = base.wca
            /\ Close(w_out.headwind, base.headwind)
            /\ Close(w_out.crosswind, base.crosswind)
            /\ \/ Close(w_out.drift, base.drift)
               \/ Close(FAbs(FSub(w_out.drift, base.drift)), F(360, 0))

\* C6 case: two whole turns are taken off the track and two added to the
\* wind direction with no rounding, and the result is the base result
C6_Witness ==
    /\ pc = "return"
    /\ w_in.i = -2 /\ w_in.k = 2 /\ w_in.j = 1
    /\ ExactSums
    /\ w_in.wind_speed = F(15, 0)
    /\ w_out = BaseWind

InWingsLevelBand(bank_deg) ==
    FLt(FAbs(std_tan(FMul(bank_deg, DEG_TO_RAD))), F(1, -3))

\* C8 as stated: in every result, the wings-level one included,
\* radius_ft = radius_nm * 6076.12.
C8_RadiusUnitsAgree ==
    pc = "return" => Close(t_out.radius_ft, FMul(t_out.radius_nm, NM_TO_FT))

\* C8 as the code has it: outside the wings-level band
\* radius_ft = radius_nm * 6076.12 up to rounding; inside it radius_nm is
\* 999.9 and radius_ft is 999900.0, which are not the same length.
C8_RadiusUnitsAgreeWhenTurning ==
    pc = "return" =>
        IF InWingsLevelBand(t_in.bank_deg)
        THEN /\ t_out.radius_nm = F(9999, -1)
             /\ t_out.radius_ft = F(999900, 0)
             /\ ~Close(t_out.radius_ft, FMul(t_out.radius_nm, NM_TO_FT))
        ELSE Close(t_out.radius_ft, FMul(t_out.radius_nm, NM_TO_FT))

\* C8 case: 250 kt at 25 degrees of bank, a radius of some 11,900 ft
C8_Witness ==
    /\ pc = "return"
    /\ t_in.tas_kts = F(250, 0) /\ t_in.bank_deg = F(25, 0)
    /\ FGt(t_out.radius_ft, F(11000, 0)) /\ FLt(t_out.radius_ft, F(13000, 0))
    /\ FGt(t_out.radius_nm, F(18, -1)) /\ FLt(t_out.radius_nm, F(22, -1))

\* C9: whenever |tan(bank)| < 0.001, radius_nm = 999.9, radius_ft = 999900.0,
\* turn_rate_dps = 0, lead_distance_nm = 0, lead_distance_ft = 0 and
\* time_to_turn_sec = 999.9, whatever the airspeed and the course change.
C9_WingsLevelSentinels ==
    pc = "return" /\ InWingsLevelBand(t_in.bank_deg) =>
        /\ t_out.radius_nm = F(9999, -1)
        /\ t_out.radius_ft = F(999900, 0)
        /\ t_out.turn_rate_dps = Zero
        /\ t_out.lead_distance_nm = Zero
        /\ t_out.lead_distance_ft = Zero
        /\ t_out.time_to_turn_sec = F(9999, -1)

\* C9 case: a bank of 0.05 degrees (tan about 0.00087) at 480 kt through a
\* course change of 270 degrees
C9_Witness ==
    /\ pc = "return"
    /\ t_in.bank_deg = F(5, -2) /\ t_in.tas_kts = F(480, 0)
    /\ t_in.course_change_deg = F(270, 0)
    /\ t_out.radius_nm = F(9999, -1)
    /\ t_out.time_to_turn_sec = F(9999, -1)

(***************************************************************************)
(* Properties of calculate_vnav (SpecVnav)                                 *)
(***************************************************************************)
\* |target_alt_ft - current_alt_ft|
AbsAltitudeChange == FAbs(FSub(v_in.target_alt_ft, v_in.current_alt_ft))

\* C10 as stated: when |altitude change| > 10,
\* distance_per_1000ft * |altitude_change_ft| = distance_nm * 1000 for the
\* distance the caller supplied, supplied distances below 0.01 nm included.
C10_Per1000ftOfSupplied ==
    pc = "return" /\ FGt(AbsAltitudeChange, F(10, 0)) =>
        Close(FMul(v_out.vnav.distance_per_1000ft, AbsAltitudeChange),
              FMul(v_in.distance_nm, F(1000, 0)))

\* C10 as the code has it: when |altitude change| > 10,
\* distance_per_1000ft * |altitude_change_ft| = d * 1000 up to rounding,
\* where d is the supplied distance raised to 0.01 nm when it is below that;
\* for a supplied distance below 0.01 nm the product is 10, not
\* distance_nm * 1000.
C10_Per1000ftOfFloored ==
    pc = "return" /\ FGt(AbsAltitudeChange, F(10, 0)) =>
        LET d == IF FLt(v_in.distance_nm, F(1, -2)) THEN F(1, -2)
                 ELSE v_in.distance_nm
            product == FMul(v_out.vnav.distance_per_1000ft, AbsAltitudeChange)
        IN  /\ Close(product, FMul(d, F(1000, 0)))
            /\ FLt(v_in.distance_nm, F(1, -2)) =>
                   ~Close(product, FMul(v_in.distance_nm, F(1000, 0)))

\* C10 case: 0.005 nm supplied with 5000 ft to lose
C10_Witness ==
    /\ pc = "return"
    /\ v_in.distance_nm = F(5, -3)
    /\ v_in.current_alt_ft = F(10000, 0) /\ v_in.target_alt_ft = F(5000, 0)
    /\ Close(FMul(v_out.vnav.distance_per_1000ft, AbsAltitudeChange), F(10, 0))

\* C11: is_descent is true exactly when target_alt_ft < current_alt_ft, and
\* on_idle_path is true exactly when either is_descent and
\* 2 <= |flight_path_angle_deg| <= 4, or not is_descent and
\* 0.5 <= flight_path_angle_deg <= 15; level flight is a non-descent with
\* on_idle_path false and tod_distance_nm 0.
C11_DescentAndIdlePath ==
    pc = "return" =>
        LET r   == v_out.vnav
            fpa == r.flight_path_angle_deg
        IN  /\ r.is_descent <=> FLt(v_in.target_alt_ft, v_in.current_alt_ft)
            /\ r.on_idle_path <=>
                   \/ /\ r.is_descent
                      /\ FLe(F(2, 0), FAbs(fpa)) /\ FLe(FAbs(fpa), F(4, 0))
                   \/ /\ ~r.is_descent
                      /\ FLe(F(5, -1), fpa) /\ FLe(fpa, F(15, 0))
            /\ v_in.target_alt_ft = v_in.current_alt_ft =>
                   ~r.is_descent /\ ~r.on_idle_path /\ r.tod_distance_nm = Zero

\* C11 case: 25000 ft to lose over 100 nm, a path of about 2.36 degrees down,
\* is a descent on the idle path
C11_Witness ==
    /\ pc = "return"
    /\ v_in.current_alt_ft = F(35000, 0) /\ v_in.target_alt_ft = F(10000, 0)
    /\ v_in.distance_nm = F(100, 0)
    /\ v_out.vnav.is_descent /\ v_out.vnav.on_idle_path
    /\ FLt(v_out.vnav.flight_path_angle_deg, F(-2, 0))
    /\ FGt(v_out.vnav.flight_path_angle_deg, F(-25, -1))

\* (altitude_change_ft / current_vs_fpm) * groundspeed_kts / 60
ProjectedDistance ==
    FDiv(FMul(FDiv(FSub(v_in.target_alt_ft, v_in.current_alt_ft),
                   v_in.current_vs_fpm),
              v_in.groundspeed_kts),
         F(60, 0))

\* C12: distance_remaining_at_current_vs is 999.9 whenever
\* |current_vs_fpm| <= 10, or groundspeed_kts <= 1, or
\* (altitude_change_ft / current_vs_fpm) * groundspeed_kts / 60 is negative;
\* otherwise it equals that value and is >= 0.  When the fifth argument is
\* left out (current_vs_fpm is 0) the printed distance_at_current_vs_nm is
\* 999.9.
C12_DistanceAtCurrentVs ==
    pc = "return" =>
        LET d == v_out.helpers.distance_remaining_at_current_vs
        IN  /\ IF \/ FLe(FAbs(v_in.current_vs_fpm), F(10, 0))
                  \/ FLe(v_in.groundspeed_kts, F(1, 0))
                  \/ FLt(ProjectedDistance, Zero)
               THEN d = F(9999, -1)
               ELSE d = ProjectedDistance /\ FGe(d, Zero)
            /\ ~v_in.has_vs =>
                   vnav_print_json(v_out.vnav, v_out.helpers)[12]
                       = <<"distance_at_current_vs_nm", F(9999, -1)>>

\* C12 case: 25000 ft to lose at -1500 ft/min and 450 kt takes 125 nm
C12_Witness ==
    /\ pc = "return"
    /\ v_in.current_alt_ft = F(35000, 0) /\ v_in.target_alt_ft = F(10000, 0)
    /\ v_in.current_vs_fpm = F(-1500, 0) /\ v_in.groundspeed_kts = F(450, 0)
    /\ v_out.helpers.distance_remaining_at_current_vs = F(125, 0)

\* C13: for a negative bank angle outside the wings-level band,
\* turn_rate_dps, radius_nm and radius_ft are all negative and
\* time_to_turn_sec is 999.9 for every course change; a time_to_turn_sec of
\* |course_change_deg| / turn_rate_dps is produced only for positive bank
\* angles.
C13_NegativeBank ==
    pc = "return" =>
        /\ FLt(t_in.bank_deg, Zero) /\ ~InWingsLevelBand(t_in.bank_deg) =>
               /\ FLt(t_out.turn_rate_dps, Zero)
               /\ FLt(t_out.radius_nm, Zero)
               /\ FLt(t_out.radius_ft, Zero)
               /\ t_out.time_to_turn_sec = F(9999, -1)
        /\ t_out.time_to_turn_sec # F(9999, -1) =>
               /\ FGt(t_in.bank_deg, Zero)
               /\ t_out.time_to_turn_sec =
                      FDiv(FAbs(t_in.course_change_deg), t_out.turn_rate_dps)

\* C13 case: 250 kt at -25 degrees of bank through 90 degrees
C13_Witness ==
    /\ pc = "return"
    /\ t_in.tas_kts = F(250, 0) /\ t_in.bank_deg = F(-25, 0)
    /\ t_in.course_change_deg = F(90, 0)
    /\ FLt(t_out.turn_rate_dps, F(-1, 0))
    /\ FLt(t_out.radius_ft, F(-11000, 0))
    /\ t_out.time_to_turn_sec = F(9999, -1)

====
